---- MODULE Spec2Model ----
(***************************************************************************)
(* Model of the BedrockMate placement/classification engine                *)
(* (rust-cli/src/structures.rs, rust-cli/src/algorithms/biome.rs).         *)
(*                                                                         *)
(* The engine is a set of pure functions over 64-bit seeds and 32-bit      *)
(* block coordinates.  Each function is modelled as a call frame           *)
(* (arguments, loop variables, accumulator) that advances one iteration of *)
(* its outer loops per step.  Wrapping 64/32-bit arithmetic is computed on *)
(* little-endian byte tuples, because the model checker's integers are     *)
(* narrower than i64.                                                      *)
(***************************************************************************)
EXTENDS Integers, Sequences, FiniteSets, TLC

VARIABLES
    fn,         \* which entry point the current frame executes
    pc,         \* "call" (arguments bound, nothing run), "loop", "done"
    seed,       \* world seed argument (i64)
    center_x,   \* search centre, block units (i32)
    center_z,
    radius,     \* search radius (i32)
    sel,        \* structure_type (find_structures) or target_biome (find_nearest_biome)
    it_x,       \* outer loop variable: region_x / qx / i
    it_z,       \* inner loop variable: region_z / qz / j
    results,    \* Vec<(String, i32, i32)> accumulator of the structure searches
    best,       \* Option<(i32, i32, f64)> accumulator of find_nearest_biome
    visited,    \* grid sample points the biome search has iterated over so far
    classified, \* number of get_biome_at calls the biome search has made so far
    climate,    \* classifier inputs [temp, humidity, cont, roll] of a direct classification
    biome,      \* label returned by a direct classification
    prior       \* return value of the first of two identical calls (determinism runs)

vars == <<fn, pc, seed, center_x, center_z, radius, sel, it_x, it_z, results,
          best, visited, classified, climate, biome, prior>>

----------------------------------------------------------------------------
(* Fixed-width integers as little-endian byte tuples.                      *)

Pow256(k) == CASE k = 0 -> 1 [] k = 1 -> 256 [] k = 2 -> 65536 [] OTHER -> 16777216

\* Propagate carries through column sums, keeping `n` bytes (wrap on overflow).
RECURSIVE Carry(_, _, _, _)
Carry(cols, k, n, c) ==
    IF k > n THEN <<>>
    ELSE LET s == cols[k] + c
         IN  <<s % 256>> \o Carry(cols, k + 1, n, s \div 256)

\* Bytes of a non-negative integer below 2^31.
NatBytes(v, n) == [k \in 1..n |-> IF k <= 4 THEN (v \div Pow256(k - 1)) % 256 ELSE 0]

\* Two's complement bytes of a model integer (sign extension to n bytes).
ToBytes(v, n) ==
    IF v >= 0 THEN NatBytes(v, n)
    ELSE LET m == NatBytes(-(v + 1), n) IN [k \in 1..n |-> 255 - m[k]]

I64(v) == ToBytes(v, 8)
I32(v) == ToBytes(v, 4)

\* wrapping_add on n-byte values
WrapAdd(a, b, n) == Carry([k \in 1..n |-> a[k] + b[k]], 1, n, 0)

RECURSIVE ColSum(_, _, _, _)
ColSum(a, b, k, i) == IF i > k THEN 0 ELSE a[i] * b[k + 1 - i] + ColSum(a, b, k, i + 1)

\* wrapping_mul on n-byte values
WrapMul(a, b, n) == Carry([k \in 1..n |-> ColSum(a, b, k, 1)], 1, n, 0)

\* The signed value of a 4-byte two's complement tuple.
FromI32(b) ==
    b[1] + b[2] * 256 + b[3] * 65536
         + (IF b[4] >= 128 THEN b[4] - 256 ELSE b[4]) * 16777216

\* Rust's `/` on integers truncates toward zero.
TruncDiv(a, b) == IF a >= 0 THEN a \div b ELSE -((-a) \div b)

Sq(v) == v * v

----------------------------------------------------------------------------
(* structures.rs: StructureType and its per-kind tables.                   *)

StructureType ==
    {"Village", "PillagerOutpost", "OceanMonument", "WoodlandMansion",
     "NetherFortress", "BastionRemnant", "Igloo", "WitchHut", "Shipwreck",
     "BuriedTreasure"}

\* display_name: the label pushed with every result (icons left out).
display_name(t) == t

spacing(t) ==
    CASE t = "Village" -> 32
      [] t = "PillagerOutpost" -> 80
      [] t = "OceanMonument" -> 32
      [] t = "WoodlandMansion" -> 80
      [] t = "NetherFortress" -> 30
      [] t = "BastionRemnant" -> 30
      [] t = "Igloo" -> 32
      [] t = "WitchHut" -> 32
      [] t = "Shipwreck" -> 24
      [] t = "BuriedTreasure" -> 8

separation(t) ==
    CASE t = "Village" -> 8
      [] t = "PillagerOutpost" -> 40
      [] t = "OceanMonument" -> 5
      [] t = "WoodlandMansion" -> 20
      [] t = "NetherFortress" -> 4
      [] t = "BastionRemnant" -> 4
      [] t = "Igloo" -> 8
      [] t = "WitchHut" -> 8
      [] t = "Shipwreck" -> 4
      [] t = "BuriedTreasure" -> 4

salt(t) ==
    CASE t = "Village" -> 10387312
      [] t = "PillagerOutpost" -> 165745296
      [] t = "OceanMonument" -> 10387313
      [] t = "WoodlandMansion" -> 10387319
      [] t = "NetherFortress" -> 30084232
      [] t = "BastionRemnant" -> 30084232
      [] t = "Igloo" -> 14357618
      [] t = "WitchHut" -> 14357620
      [] t = "Shipwreck" -> 165745295
      [] t = "BuriedTreasure" -> 16842397

\* 341873128712 and 132897987541, the region multipliers of get_structure_seed
REGION_X_MUL == <<8, 245, 57, 153, 79, 0, 0, 0>>
REGION_Z_MUL == <<213, 91, 86, 241, 30, 0, 0, 0>>

\* 6364136223846793005 and 1442695040888963407, the LCG step of next_int
LCG_MUL == <<45, 127, 149, 76, 45, 244, 81, 88>>
LCG_INC == <<79, 129, 103, 247, 126, 123, 5, 20>>

\* world_seed + region_x*341873128712 + region_z*132897987541 + salt, wrapping
get_structure_seed(world_seed, region_x, region_z, s) ==
    WrapAdd(WrapAdd(WrapAdd(I64(world_seed),
                            WrapMul(I64(region_x), REGION_X_MUL, 8), 8),
                    WrapMul(I64(region_z), REGION_Z_MUL, 8), 8),
            I64(s), 8)

\* *seed = seed * 6364136223846793005 + 1442695040888963407 (wrapping)
lcg_step(state) == WrapAdd(WrapMul(state, LCG_MUL, 8), LCG_INC, 8)

\* ((*seed >> 17) as i32 as i64).abs() % bound, on the stepped state: bits
\* 17..47 are the magnitude bits of the i32, bit 48 is its sign.
draw(state, bound) ==
    LET low == (state[3] \div 2) + state[4] * 128 + state[5] * 32768
                                 + state[6] * 8388608
    IN  IF state[7] % 2 = 0 THEN low % bound
        ELSE (((2147483647 - low) % bound) + 1) % bound

\* next_int: the stepped state and the bounded draw taken from it
next_int(state, bound) ==
    LET s == lcg_step(state) IN [seed |-> s, val |-> draw(s, bound)]

\* dist_sq of a block position to the query centre
dist_sq(x, z, cx, cz) == Sq(x - cx) + Sq(z - cz)

----------------------------------------------------------------------------
(* structures.rs: find_structures.                                         *)

spacing_blocks(t) == spacing(t) * 16
\* The lower bound without the extra region.
min_region_no_margin(c, r, t) == TruncDiv(c - r, spacing_blocks(t))

min_region(c, r, t) == TruncDiv(c - r, spacing_blocks(t)) - 1
max_region(c, r, t) == TruncDiv(c + r, spacing_blocks(t)) + 1

\* The single jittered candidate of a region: block_x, block_z.
region_candidate(s, region_x, region_z, t) ==
    LET offset_range == spacing(t) - separation(t)
        d1 == next_int(get_structure_seed(s, region_x, region_z, salt(t)), offset_range)
        d2 == next_int(d1.seed, offset_range)
        chunk_x == region_x * spacing(t) + d1.val
        chunk_z == region_z * spacing(t) + d2.val
    IN  <<chunk_x * 16 + 8, chunk_z * 16 + 8>>

\* A filter on the bounding square instead of the circle.
structure_in_square(p, cx, cz, r) ==
    /\ p[1] - cx <= r /\ cx - p[1] <= r
    /\ p[2] - cz <= r /\ cz - p[2] <= r

\* A filter that compares the squared distance with the radius itself.
structure_in_range_unsquared(p, cx, cz, r) == dist_sq(p[1], p[2], cx, cz) <= r

\* The radius filter of the loop body.
structure_in_range(p, cx, cz, r) == dist_sq(p[1], p[2], cx, cz) <= Sq(r)

\* One iteration of the region loops: push the candidate if it is in range.
structures_body(res, s, cx, cz, r, t, region_x, region_z) ==
    LET p == region_candidate(s, region_x, region_z, t)
    IN  IF structure_in_range(p, cx, cz, r)
        THEN Append(res, <<display_name(t), p[1], p[2]>>)
        ELSE res

----------------------------------------------------------------------------
(* structures.rs: find_nether_structures.                                  *)

QUADRANT_SIZE == 480
NETHER_SALT == 30084232
check_points == <<100, 200, 300>>

min_q(c, r) == TruncDiv(c - r, QUADRANT_SIZE) - 1
max_q(c, r) == TruncDiv(c + r, QUADRANT_SIZE) + 1

\* results.iter().any(|(_, x, z)| x / 480 == qx && z / 480 == qz)
already_added(res, qx, qz) ==
    \E k \in 1..Len(res) :
        /\ TruncDiv(res[k][2], QUADRANT_SIZE) = qx
        /\ TruncDiv(res[k][3], QUADRANT_SIZE) = qz

\* The entry a quadrant emits: kind from the first draw, position from the
\* second and third.
quadrant_entry(s, qx, qz) ==
    LET roll == next_int(get_structure_seed(s, qx, qz, NETHER_SALT), 100)
        dx == next_int(roll.seed, 280)
        dz == next_int(dx.seed, 280)
        name == IF roll.val < 33 THEN "NetherFortress" ELSE "BastionRemnant"
    IN  <<name, qx * QUADRANT_SIZE + dx.val + 100, qz * QUADRANT_SIZE + dz.val + 100>>

\* Checkpoint (offset_x, offset_z) of the quadrant lies within the radius.
checkpoint_in_range(qx, qz, offset_x, offset_z, cx, cz, r) ==
    dist_sq(qx * QUADRANT_SIZE + offset_x, qz * QUADRANT_SIZE + offset_z, cx, cz) <= Sq(r)

\* The inner `for &offset_z` loop for one offset_x: checkpoints out of range
\* are skipped (continue); the first one in range pushes the entry unless
\* already_added, and ends the loop (break).
nether_column(res, s, cx, cz, r, qx, qz, offset_x) ==
    IF \E k \in 1..3 : checkpoint_in_range(qx, qz, offset_x, check_points[k], cx, cz, r)
    THEN IF already_added(res, qx, qz) THEN res
         ELSE Append(res, quadrant_entry(s, qx, qz))
    ELSE res

\* The `for &offset_x` loop of one quadrant: the three columns in order.
nether_body(res, s, cx, cz, r, qx, qz) ==
    LET r1 == nether_column(res, s, cx, cz, r, qx, qz, check_points[1])
        r2 == nether_column(r1, s, cx, cz, r, qx, qz, check_points[2])
    IN  nether_column(r2, s, cx, cz, r, qx, qz, check_points[3])


----------------------------------------------------------------------------
(* Exact values of the f64 noise fields.  A noise value is a sum of i32    *)
(* hashes divided by a multiple of i32::MAX; it is kept as a fraction n/d  *)
(* whose parts are wide integers <<h, l>> = h * 65536 + l.  Every          *)
(* comparison of the classifier is between such a fraction and a decimal   *)
(* literal p/q; the two differ by at least 1/(q*d) unless they are equal,  *)
(* far more than the rounding error of the f64 evaluation.                 *)

W(v) == <<v \div 65536, v % 65536>>
WAdd(a, b) == <<a[1] + b[1], a[2] + b[2]>>
WScale(a, k) == <<a[1] * k, a[2] * k>>
WNorm(a) == <<a[1] + (a[2] \div 65536), a[2] % 65536>>
WLess(a, b) ==
    LET x == WNorm(a)
        y == WNorm(b)
    IN  x[1] < y[1] \/ (x[1] = y[1] /\ x[2] < y[2])

\* i32::MAX as f64
I32_MAX == 2147483647

\* The fraction p/q of small integers, q > 0.
Frac(p, q) == [n |-> W(p), d |-> W(q)]

\* v < p/q and v > p/q for a fraction v and a decimal literal p/q
Lt(v, p, q) == WLess(WScale(v.n, q), WScale(v.d, p))
Gt(v, p, q) == WLess(WScale(v.d, p), WScale(v.n, q))

----------------------------------------------------------------------------
(* algorithms/biome.rs: hash noise.                                        *)

\* An i32 as three limbs of 11, 11 and 10 bits (two's complement), and back.
Limbs(v) == <<v % 2048, (v \div 2048) % 2048, (v \div 4194304) % 1024>>
Signed(l) == l[1] + 2048 * l[2] + 4194304 * (IF l[3] >= 512 THEN l[3] - 1024 ELSE l[3])

\* i32 wrapping_mul and wrapping_add
Mul32(a, b) ==
    LET x == Limbs(a)
        y == Limbs(b)
        s1 == x[1] * y[1]
        s2 == x[1] * y[2] + x[2] * y[1] + (s1 \div 2048)
        s3 == x[1] * y[3] + x[2] * y[2] + x[3] * y[1] + (s2 \div 2048)
    IN  Signed(<<s1 % 2048, s2 % 2048, s3 % 1024>>)

Add32(a, b) ==
    LET x == Limbs(a)
        y == Limbs(b)
        s1 == x[1] + y[1]
        s2 == x[2] + y[2] + (s1 \div 2048)
        s3 == x[3] + y[3] + (s2 \div 2048)
    IN  Signed(<<s1 % 2048, s2 % 2048, s3 % 1024>>)

RECURSIVE XorBits(_, _, _)
XorBits(a, b, k) ==
    IF k = 0 THEN 0
    ELSE ((a + b) % 2) + 2 * XorBits(a \div 2, b \div 2, k - 1)

\* `^` on 6-bit pieces, tabulated
XorTable == [a \in 0..63 |-> [b \in 0..63 |-> XorBits(a, b, 6)]]
XorLimb(a, b) == XorTable[a \div 64][b \div 64] * 64 + XorTable[a % 64][b % 64]

\* i32 `^`
Xor32(a, b) ==
    LET x == Limbs(a)
        y == Limbs(b)
    IN  Signed(<<XorLimb(x[1], y[1]), XorLimb(x[2], y[2]), XorLimb(x[3], y[3])>>)

\* `seed as i32` for a seed within the i32 range of the model's integers
as_i32(s) == Signed(Limbs(s))

\* The i32 hash of noise_1d, before the division by i32::MAX.  `n >> 13` is
\* an arithmetic shift: the floor of n / 8192.
noise_1d(s, x) ==
    LET n == Add32(Mul32(x, 374761393), Mul32(as_i32(s), 668265263))
    IN  Mul32(Xor32(n, n \div 8192), 1274126177)

\* The numerator n1 + n2 + n3 of noise_2d; the value is this over 3 * i32::MAX.
noise_2d_sum(s, x, z) ==
    WAdd(WAdd(W(noise_1d(s, x)), W(noise_1d(s + 12345, z))),
         W(noise_1d(s + 67890, x + z)))

noise_2d(s, x, z) == [n |-> noise_2d_sum(s, x, z), d |-> WScale(W(I32_MAX), 3)]

\* The four-octave sum of get_temperature / get_humidity, remapped by
\* (sum + 1.0) / 2.0.  Octave i samples ((x / 256.0) * 2^i) as i32 with
\* amplitude 2^-i: sum = (8*A0 + 4*A1 + 2*A2 + A3) / (8 * 3 * i32::MAX).
octave_field(s, x, z) ==
    LET A(i, f) == noise_2d_sum(s + i * 1000, TruncDiv(x * f, 256), TruncDiv(z * f, 256))
        total == WAdd(WAdd(WScale(A(0, 1), 8), WScale(A(1, 2), 4)),
                      WAdd(WScale(A(2, 4), 2), A(3, 8)))
    IN  [n |-> WAdd(total, WScale(W(I32_MAX), 24)), d |-> WScale(W(I32_MAX), 48)]

get_temperature(s, x, z) == octave_field(s, x, z)
get_humidity(s, x, z) == octave_field(s + 50000, x, z)
get_continentalness(s, x, z) == noise_2d(s + 100000, TruncDiv(x, 512), TruncDiv(z, 512))

----------------------------------------------------------------------------
(* algorithms/biome.rs: BiomeType and the classifier.                      *)

BiomeType ==
    {"Plains", "Forest", "Jungle", "Desert", "Mesa", "Mushroom", "IceSpikes",
     "Swamp", "Savanna", "Taiga", "SnowyTaiga", "Ocean", "DeepOcean", "Beach",
     "River", "Mountain", "Unknown"}

\* rarity, in hundredths
rarity(b) ==
    CASE b \in {"Plains", "Forest"} -> 10
      [] b = "Jungle" -> 60
      [] b \in {"Desert", "Swamp", "Savanna", "DeepOcean"} -> 30
      [] b = "Mesa" -> 80
      [] b = "Mushroom" -> 95
      [] b = "IceSpikes" -> 85
      [] b \in {"Taiga", "Ocean", "Beach", "River"} -> 20
      [] b \in {"SnowyTaiga", "Mountain"} -> 40
      [] b = "Unknown" -> 100

\* The sea branch of get_biome_at (cont < -0.2).
sea_branch(cont) == IF Lt(cont, -5, 10) THEN "DeepOcean" ELSE "Ocean"

\* The river/beach branch (cont < 0.0).
shore_branch(humidity) == IF Gt(humidity, 7, 10) THEN "River" ELSE "Beach"

\* The cold branch (temp < 0.2).
cold_branch(humidity, rare_chance) ==
    IF Lt(humidity, 3, 10)
    THEN IF Gt(rare_chance, 9, 10) THEN "IceSpikes" ELSE "SnowyTaiga"
    ELSE "Taiga"

\* The temperate branch with `>=` where the code has `humidity > 0.4`.
temperate_branch_ge(humidity, cont) ==
    IF Gt(humidity, 7, 10) THEN "Swamp"
    ELSE IF ~Lt(humidity, 4, 10) THEN "Forest"
    ELSE IF Gt(cont, 5, 10) THEN "Mountain"
    ELSE "Plains"

\* The temperate branch (temp < 0.6).
temperate_branch(humidity, cont) ==
    IF Gt(humidity, 7, 10) THEN "Swamp"
    ELSE IF Gt(humidity, 4, 10) THEN "Forest"
    ELSE IF Gt(cont, 5, 10) THEN "Mountain"
    ELSE "Plains"

\* The hot branch ending in the placeholder instead of the savanna fallback.
hot_branch_unknown(humidity, cont, jungle_chance, mesa_chance, mushroom_chance) ==
    IF Gt(humidity, 6, 10)
    THEN IF Gt(jungle_chance, 7, 10) THEN "Jungle" ELSE "Savanna"
    ELSE IF Lt(humidity, 3, 10)
    THEN IF Gt(mesa_chance, 85, 100) THEN "Mesa" ELSE "Desert"
    ELSE IF Lt(cont, 1, 10) /\ Gt(mushroom_chance, 95, 100) THEN "Mushroom"
    ELSE "Unknown"

\* The hot branch: what is left after the `temp < 0.6` return.
hot_branch(humidity, cont, jungle_chance, mesa_chance, mushroom_chance) ==
    IF Gt(humidity, 6, 10)
    THEN IF Gt(jungle_chance, 7, 10) THEN "Jungle" ELSE "Savanna"
    ELSE IF Lt(humidity, 3, 10)
    THEN IF Gt(mesa_chance, 85, 100) THEN "Mesa" ELSE "Desert"
    ELSE IF Lt(cont, 1, 10) /\ Gt(mushroom_chance, 95, 100) THEN "Mushroom"
    ELSE "Savanna"

\* The decision tree of get_biome_at on a climate: the three noise fields
\* and the four rare-variant rolls (each roll is read on one path only).
biome_tree(c) ==
    IF Lt(c.cont, -2, 10) THEN sea_branch(c.cont)
    ELSE IF Lt(c.cont, 0, 10) THEN shore_branch(c.humidity)
    ELSE IF Lt(c.temp, 2, 10) THEN cold_branch(c.humidity, c.rare_chance)
    ELSE IF Lt(c.temp, 6, 10) THEN temperate_branch(c.humidity, c.cont)
    ELSE hot_branch(c.humidity, c.cont, c.jungle_chance, c.mesa_chance,
                    c.mushroom_chance)

\* The noise values get_biome_at reads at a coordinate.
climate_at(s, x, z) ==
    [temp |-> get_temperature(s, x, z),
     humidity |-> get_humidity(s, x, z),
     cont |-> get_continentalness(s, x, z),
     rare_chance |-> noise_2d(s + 200000, TruncDiv(x, 256), TruncDiv(z, 256)),
     jungle_chance |-> noise_2d(s + 300000, TruncDiv(x, 512), TruncDiv(z, 512)),
     mesa_chance |-> noise_2d(s + 400000, TruncDiv(x, 1024), TruncDiv(z, 1024)),
     mushroom_chance |-> noise_2d(s + 500000, TruncDiv(x, 2048), TruncDiv(z, 2048))]

get_biome_at(s, x, z) == biome_tree(climate_at(s, x, z))


----------------------------------------------------------------------------
(* algorithms/biome.rs: BiomeType::from_str.  A name is a tuple of         *)
(* one-character strings; Option is <<>> (None) or <<v>> (Some(v)).        *)

\* char::to_lowercase on the characters the inputs are drawn from
lower_char(c) ==
    CASE c = "A" -> "a"
      [] c = "B" -> "b"
      [] c = "C" -> "c"
      [] c = "D" -> "d"
      [] c = "E" -> "e"
      [] c = "F" -> "f"
      [] c = "G" -> "g"
      [] c = "H" -> "h"
      [] c = "I" -> "i"
      [] c = "J" -> "j"
      [] c = "K" -> "k"
      [] c = "L" -> "l"
      [] c = "M" -> "m"
      [] c = "N" -> "n"
      [] c = "O" -> "o"
      [] c = "P" -> "p"
      [] c = "Q" -> "q"
      [] c = "R" -> "r"
      [] c = "S" -> "s"
      [] c = "T" -> "t"
      [] c = "U" -> "u"
      [] c = "V" -> "v"
      [] c = "W" -> "w"
      [] c = "X" -> "x"
      [] c = "Y" -> "y"
      [] c = "Z" -> "z"
      [] OTHER -> c

\* A lookup that keeps the case of the name.
keep_case(s) == s

to_lowercase(s) == [k \in 1..Len(s) |-> lower_char(s[k])]

from_str(s) ==
    LET l == to_lowercase(s)
    IN  CASE l = <<"p", "l", "a", "i", "n", "s">> -> <<"Plains">>
      [] l = <<"f", "o", "r", "e", "s", "t">> -> <<"Forest">>
      [] l = <<"j", "u", "n", "g", "l", "e">> -> <<"Jungle">>
      [] l = <<"d", "e", "s", "e", "r", "t">> -> <<"Desert">>
      [] l = <<"m", "e", "s", "a">> -> <<"Mesa">>
      [] l = <<"b", "a", "d", "l", "a", "n", "d", "s">> -> <<"Mesa">>
      [] l = <<"m", "u", "s", "h", "r", "o", "o", "m">> -> <<"Mushroom">>
      [] l = <<"m", "u", "s", "h", "r", "o", "o", "m", "_", "f", "i", "e", "l", "d", "s">> -> <<"Mushroom">>
      [] l = <<"i", "c", "e", "_", "s", "p", "i", "k", "e", "s">> -> <<"IceSpikes">>
      [] l = <<"i", "c", "e", "s", "p", "i", "k", "e", "s">> -> <<"IceSpikes">>
      [] l = <<"s", "w", "a", "m", "p">> -> <<"Swamp">>
      [] l = <<"s", "a", "v", "a", "n", "n", "a">> -> <<"Savanna">>
      [] l = <<"t", "a", "i", "g", "a">> -> <<"Taiga">>
      [] l = <<"s", "n", "o", "w", "y", "_", "t", "a", "i", "g", "a">> -> <<"SnowyTaiga">>
      [] l = <<"o", "c", "e", "a", "n">> -> <<"Ocean">>
      [] l = <<"d", "e", "e", "p", "_", "o", "c", "e", "a", "n">> -> <<"DeepOcean">>
      [] l = <<"b", "e", "a", "c", "h">> -> <<"Beach">>
      [] l = <<"r", "i", "v", "e", "r">> -> <<"River">>
      [] l = <<"m", "o", "u", "n", "t", "a", "i", "n">> -> <<"Mountain">>
      [] l = <<"e", "x", "t", "r", "e", "m", "e", "_", "h", "i", "l", "l", "s">> -> <<"Mountain">>
          [] OTHER -> <<>>

----------------------------------------------------------------------------
(* algorithms/biome.rs: find_nearest_biome.                                *)

\* The sampling step chosen from the target's rarity.
step_for(target) ==
    IF rarity(target) > 80 THEN 64
    ELSE IF rarity(target) > 50 THEN 128
    ELSE 256

\* (radius * 2 / step).max(1)
samples_per_axis(r, step) ==
    LET q == TruncDiv(r * 2, step) IN IF q > 1 THEN q ELSE 1

\* Grid sample (i, j): center - radius + index * step on each axis.
sample_point(cx, cz, r, step, i, j) == <<cx - r + i * step, cz - r + j * step>>

RECURSIVE ISqrt(_, _, _)
ISqrt(v, lo, hi) ==
    IF lo = hi THEN lo
    ELSE LET mid == (lo + hi + 1) \div 2
         IN  IF mid * mid <= v THEN ISqrt(v, mid, hi) ELSE ISqrt(v, lo, mid - 1)

\* (dist_sq as f64).sqrt(): the root r + f, 0 <= f < 1, kept exactly as its
\* integer part r and the remainder dist_sq - r*r (which fixes f).
sqrt_f64(v) == LET r == ISqrt(v, 0, 46340) IN <<r, v - r * r>>

\* a <= b on two such roots
dist_le(a, b) == a[1] < b[1] \/ (a[1] = b[1] /\ a[2] <= b[2])

\* No sample is skipped: the search covers the whole square.
sample_never_skipped(p, cx, cz, r) == FALSE

\* The sample is skipped before classification (`continue`).
sample_out_of_range(p, cx, cz, r) == dist_sq(p[1], p[2], cx, cz) > Sq(r)

\* The holder replaced also by an equally near sample (`<` for `<=`).
keep_best_strict(b, p, distance) ==
    IF b # <<>> /\ ~dist_le(distance, b[3]) THEN b ELSE <<p[1], p[2], distance>>

\* The `match &best` of the loop body: keep the holder unless the new
\* sample is strictly closer.
keep_best(b, p, distance) ==
    IF b # <<>> /\ dist_le(b[3], distance) THEN b ELSE <<p[1], p[2], distance>>

\* One iteration of the sample loops, on the accumulator `best`.
biome_body(b, s, cx, cz, r, target, step, i, j) ==
    LET p == sample_point(cx, cz, r, step, i, j)
    IN  IF sample_out_of_range(p, cx, cz, r) THEN b
        ELSE IF get_biome_at(s, p[1], p[2]) = target
        THEN keep_best(b, p, sqrt_f64(dist_sq(p[1], p[2], cx, cz)))
        ELSE b


----------------------------------------------------------------------------
(* Inputs the calls are checked on.                                        *)

NumSeeds == 3
NumCenters == 4
MaxRadiusUnits == 4

SeedTable == <<12345, -7, 0, 42, 987654321>>
CenterTable == << <<0, 0>>, <<-600, 250>>, <<130, -90>>, <<1000, 1000>>, <<-2048, -2048>> >>

Seeds == {SeedTable[k] : k \in 1..NumSeeds}
Centers == {CenterTable[k] : k \in 1..NumCenters}
Radii == {250 * k : k \in 0..MaxRadiusUnits}

\* Origins of a query: a seed and a centre.
Origins(S, C) == {<<sd, c[1], c[2]>> : sd \in S, c \in C}

\* A climate given directly: one roll value stands for the four rolls.
Climate(t, h, c, r) ==
    [temp |-> t, humidity |-> h, cont |-> c, rare_chance |-> r,
     jungle_chance |-> r, mesa_chance |-> r, mushroom_chance |-> r]

NoClimate == Climate(Frac(0, 1), Frac(0, 1), Frac(0, 1), Frac(0, 1))

\* A frame whose arguments are bound and whose body has not started.
Frame(f, O, R, T) ==
    /\ fn = f
    /\ pc = "call"
    /\ \E o \in O : seed = o[1] /\ center_x = o[2] /\ center_z = o[3]
    /\ radius \in R
    /\ sel \in T
    /\ it_x = 0
    /\ it_z = 0
    /\ results = <<>>
    /\ best = <<>>
    /\ visited = 0
    /\ classified = 0
    /\ biome = "Unknown"
    /\ prior = <<>>

\* An accumulator that outlives the call.
stale_results == results

\* `let mut results = Vec::new()` and `let mut best = None`: the accumulators
\* every call starts from.
new_results == <<>>
new_best == <<>>

\* Advance a pair of nested inclusive ranges; the frame returns after the
\* last iteration.
Advance(lo_z, hi_x, hi_z) ==
    IF it_z < hi_z THEN it_x' = it_x /\ it_z' = it_z + 1 /\ pc' = "loop"
    ELSE IF it_x < hi_x THEN it_x' = it_x + 1 /\ it_z' = lo_z /\ pc' = "loop"
    ELSE it_x' = it_x /\ it_z' = it_z /\ pc' = "done"

----------------------------------------------------------------------------
(* find_structures as a frame.                                             *)

StructuresBegin ==
    /\ fn = "find_structures"
    /\ pc = "call"
    /\ results' = new_results
    /\ it_x' = min_region(center_x, radius, sel)
    /\ it_z' = min_region(center_z, radius, sel)
    /\ pc' = "loop"
    /\ UNCHANGED <<fn, seed, center_x, center_z, radius, sel, best, visited,
                   classified, climate, biome, prior>>

StructuresRegion ==
    /\ fn = "find_structures"
    /\ pc = "loop"
    /\ results' = structures_body(results, seed, center_x, center_z, radius, sel,
                                  it_x, it_z)
    /\ Advance(min_region(center_z, radius, sel),
               max_region(center_x, radius, sel),
               max_region(center_z, radius, sel))
    /\ UNCHANGED <<fn, seed, center_x, center_z, radius, sel, best, visited,
                   classified, climate, biome, prior>>

StructureKinds == {"Village", "Shipwreck", "BuriedTreasure", "WoodlandMansion"}

InitStructures ==
    /\ Frame("find_structures", Origins(Seeds, Centers), Radii, StructureKinds)
    /\ climate = NoClimate
NextStructures == StructuresBegin \/ StructuresRegion
SpecStructures == InitStructures /\ [][NextStructures]_vars

----------------------------------------------------------------------------
(* find_nether_structures as a frame.                                      *)

NetherBegin ==
    /\ fn = "find_nether_structures"
    /\ pc = "call"
    /\ results' = new_results
    /\ it_x' = min_q(center_x, radius)
    /\ it_z' = min_q(center_z, radius)
    /\ pc' = "loop"
    /\ UNCHANGED <<fn, seed, center_x, center_z, radius, sel, best, visited,
                   classified, climate, biome, prior>>

NetherQuadrant ==
    /\ fn = "find_nether_structures"
    /\ pc = "loop"
    /\ results' = nether_body(results, seed, center_x, center_z, radius, it_x, it_z)
    /\ Advance(min_q(center_z, radius), max_q(center_x, radius),
               max_q(center_z, radius))
    /\ UNCHANGED <<fn, seed, center_x, center_z, radius, sel, best, visited,
                   classified, climate, biome, prior>>

InitNether ==
    /\ Frame("find_nether_structures", Origins(Seeds, Centers), Radii, {"-"})
    /\ climate = NoClimate
NextNether == NetherBegin \/ NetherQuadrant
SpecNether == InitNether /\ [][NextNether]_vars

----------------------------------------------------------------------------
(* Properties of find_nether_structures.                                   *)

Quadrant(e) == <<TruncDiv(e[2], QUADRANT_SIZE), TruncDiv(e[3], QUADRANT_SIZE)>>

\* C1: no two entries at different positions of the list returned by
\* find_nether_structures have the same quadrant (x/480, z/480).
C1_QuadrantExclusive ==
    (fn = "find_nether_structures" /\ pc = "done") =>
        \A k, l \in 1..Len(results) :
            k # l => Quadrant(results[k]) # Quadrant(results[l])

\* C2: every entry returned by find_nether_structures lies within the radius
\* of the centre (squared distance of the emitted position <= radius^2).
C2_NetherWithinRadius ==
    (fn = "find_nether_structures" /\ pc = "done") =>
        \A k \in 1..Len(results) :
            dist_sq(results[k][2], results[k][3], center_x, center_z) <= Sq(radius)

\* The quadrants the search scans, and whether a quadrant has a checkpoint
\* within the radius.
ScannedQuadrants ==
    {<<qx, qz>> : qx \in min_q(center_x, radius)..max_q(center_x, radius),
                  qz \in min_q(center_z, radius)..max_q(center_z, radius)}
HasCheckpoint(q) ==
    \E i, j \in 1..3 :
        checkpoint_in_range(q[1], q[2], check_points[i], check_points[j],
                            center_x, center_z, radius)
EmittedFor(q) ==
    Cardinality({k \in 1..Len(results) : results[k] = quadrant_entry(seed, q[1], q[2])})

\* C12: every scanned quadrant with a checkpoint within the radius has
\* exactly one result (kind from the first draw, position from the second and
\* third), every other scanned quadrant has none, and no quadrant's result is
\* suppressed by the result of another quadrant.
C12_OnePerQuadrant ==
    (fn = "find_nether_structures" /\ pc = "done") =>
        \A q \in ScannedQuadrants :
            EmittedFor(q) = IF HasCheckpoint(q) THEN 1 ELSE 0

\* A finished search in which a quadrant with a checkpoint within the radius
\* has no result, while a neighbouring quadrant has one.
C12_Witness ==
    /\ fn = "find_nether_structures"
    /\ pc = "done"
    /\ \E q \in ScannedQuadrants : HasCheckpoint(q) /\ EmittedFor(q) = 0
    /\ \E q \in ScannedQuadrants : HasCheckpoint(q) /\ EmittedFor(q) >= 1

----------------------------------------------------------------------------
(* Properties of find_structures.                                          *)

\* C3: every entry of the list find_structures builds lies within the radius
\* of the centre: squared distance <= radius^2, equality included.
C3_StructuresWithinRadius ==
    fn = "find_structures" =>
        \A k \in 1..Len(results) :
            dist_sq(results[k][2], results[k][3], center_x, center_z) <= Sq(radius)

\* A finished search that returned several entries, one of them in the
\* corner zone where both axis distances are large.
C3_Witness ==
    /\ fn = "find_structures"
    /\ pc = "done"
    /\ Len(results) >= 3
    /\ \E k \in 1..Len(results) :
           2 * dist_sq(results[k][2], results[k][3], center_x, center_z) > Sq(radius)


\* The region whose cell [rx * spacing_blocks, (rx + 1) * spacing_blocks)
\* contains a block coordinate.
RegionOf(c, t) == c \div spacing_blocks(t)

VillageSearch ==
    fn = "find_structures" /\ pc = "done" /\ sel = "Village" /\ radius = 1000

\* C11: find_structures for Village with radius 1000 returns a non-empty
\* list: the region containing the centre is enumerated, and its candidate is
\* returned; whatever offsets are drawn, a candidate of that region is within
\* the radius of any centre in the region.
C11_VillageFound ==
    VillageSearch =>
        LET rx == RegionOf(center_x, sel)
            rz == RegionOf(center_z, sel)
            p == region_candidate(seed, rx, rz, sel)
        IN  /\ Len(results) >= 1
            /\ min_region(center_x, radius, sel) <= rx
            /\ rx <= max_region(center_x, radius, sel)
            /\ min_region(center_z, radius, sel) <= rz
            /\ rz <= max_region(center_z, radius, sel)
            /\ \E k \in 1..Len(results) : results[k] = <<display_name(sel), p[1], p[2]>>
            /\ \A o \in 0..(spacing_blocks(sel) - 1),
                  d \in 0..(spacing(sel) - separation(sel) - 1) :
                   2 * Sq(d * 16 + 8 - o) <= Sq(radius)

\* A finished village search around a centre with a negative coordinate.
C11_Witness ==
    /\ VillageSearch
    /\ center_x < 0
    /\ LET p == region_candidate(seed, RegionOf(center_x, sel), RegionOf(center_z, sel), sel)
       IN  p[1] < 0 /\ \E k \in 1..Len(results) : results[k][2] = p[1] /\ results[k][3] = p[2]


\* Regions checked beyond the enumerated range, on each side.
GridMargin == 2

\* A window of the region grid: the enumerated range and GridMargin more
\* regions on every side.
GridWindow ==
    {<<rx, rz>> :
        rx \in (min_region(center_x, radius, sel) - GridMargin)
                   ..(max_region(center_x, radius, sel) + GridMargin),
        rz \in (min_region(center_z, radius, sel) - GridMargin)
                   ..(max_region(center_z, radius, sel) + GridMargin)}

Enumerated(g) ==
    /\ min_region(center_x, radius, sel) <= g[1]
    /\ g[1] <= max_region(center_x, radius, sel)
    /\ min_region(center_z, radius, sel) <= g[2]
    /\ g[2] <= max_region(center_z, radius, sel)

\* The candidate the claim gives a region, its entry, and how often the
\* entry occurs in the result.
CandidateEntry(g) ==
    LET p == region_candidate(seed, g[1], g[2], sel)
    IN  <<display_name(sel), p[1], p[2]>>
Occurrences(e) == Cardinality({k \in 1..Len(results) : results[k] = e})
InRadius(e) == Sq(e[2] - center_x) + Sq(e[3] - center_z) <= Sq(radius)

\* The block coordinate of a candidate of region rx that drew offset d.
BlockOf(rx, d, t) == (rx * spacing(t) + d) * 16 + 8

\* C13: the result of find_structures holds the candidate of every region of
\* the grid exactly once if it is within the radius and not at all
\* otherwise: distinct regions have distinct candidates, the entries returned
\* are the candidates within the radius, and none is returned twice; a region
\* outside the enumerated range has no candidate within the bounding square,
\* whatever offset it draws, also where centre - radius is negative.
C13_CompleteNoDuplicates ==
    (fn = "find_structures" /\ pc = "done") =>
        /\ LET cand == {CandidateEntry(g) : g \in GridWindow}
               returned == {results[k] : k \in 1..Len(results)}
           IN  /\ Cardinality(cand) = Cardinality(GridWindow)
               /\ returned = {e \in cand : InRadius(e)}
               /\ Len(results) = Cardinality(returned)
        /\ \A d \in 0..(spacing(sel) - separation(sel) - 1) :
               /\ BlockOf(min_region(center_x, radius, sel) - 1, d, sel) < center_x - radius
               /\ BlockOf(max_region(center_x, radius, sel) + 1, d, sel) > center_x + radius
               /\ BlockOf(min_region(center_z, radius, sel) - 1, d, sel) < center_z - radius
               /\ BlockOf(max_region(center_z, radius, sel) + 1, d, sel) > center_z + radius

\* A finished search with a negative lower bound that returned a candidate of
\* the first enumerated column of regions and left candidates out.
C13_Witness ==
    /\ fn = "find_structures"
    /\ pc = "done"
    /\ center_x - radius < 0
    /\ \E g \in GridWindow :
           /\ g[1] = min_region(center_x, radius, sel)
           /\ Occurrences(CandidateEntry(g)) = 1
    /\ \E g \in GridWindow : Enumerated(g) /\ Occurrences(CandidateEntry(g)) = 0


----------------------------------------------------------------------------
(* get_biome_at as a frame: on a climate given directly (values around     *)
(* and on every threshold, in hundredths) and on the noise of a            *)
(* coordinate.                                                             *)

TempValues == {0, 19, 20, 21, 59, 60, 61, 100}
HumidityValues == {0, 29, 30, 31, 40, 41, 59, 60, 61, 70, 71, 100}
ContValues == {-100, -51, -50, -49, -21, -20, -19, -1, 0, 1, 9, 10, 11, 50, 51, 100}
RollValues == {-100, 70, 71, 85, 86, 90, 91, 95, 96, 100}

MaxGrid == 3
GridPoints == {<<c[1] + 64 * i, c[2] + 64 * j>> : c \in Centers, i, j \in 0..MaxGrid}

InitClassify ==
    \/ /\ Frame("biome_tree", {<<0, 0, 0>>}, {0}, {"-"})
       /\ \E t \in TempValues, h \in HumidityValues, c \in ContValues, r \in RollValues :
              climate = Climate(Frac(t, 100), Frac(h, 100), Frac(c, 100), Frac(r, 100))
    \/ /\ Frame("get_biome_at", Origins(Seeds, GridPoints), {0}, {"-"})
       /\ climate = NoClimate

\* The tree applied to a climate given directly.
ClassifyValues ==
    /\ fn = "biome_tree"
    /\ pc = "call"
    /\ biome' = biome_tree(climate)
    /\ pc' = "done"
    /\ UNCHANGED <<fn, seed, center_x, center_z, radius, sel, it_x, it_z, results,
                   best, visited, classified, climate, prior>>

\* get_biome_at(seed, x, z) at the coordinate (center_x, center_z).
ClassifyPoint ==
    /\ fn = "get_biome_at"
    /\ pc = "call"
    /\ climate' = climate_at(seed, center_x, center_z)
    /\ biome' = get_biome_at(seed, center_x, center_z)
    /\ pc' = "done"
    /\ UNCHANGED <<fn, seed, center_x, center_z, radius, sel, it_x, it_z, results,
                   best, visited, classified, prior>>

NextClassify == ClassifyValues \/ ClassifyPoint
SpecClassify == InitClassify /\ [][NextClassify]_vars

Classified == fn \in {"biome_tree", "get_biome_at"} /\ pc = "done"

Ge(v, p, q) == ~Lt(v, p, q)
Le(v, p, q) == ~Gt(v, p, q)

\* C5: get_biome_at returns exactly one of the 16 real labels, never the
\* placeholder Unknown, for every climate and every coordinate.
C5_ClassifierTotal == Classified => biome \in BiomeType \ {"Unknown"}

\* The classifier has run off the end of every test: hot, middling humidity,
\* inland (or the mushroom roll failed).
C5_Witness ==
    /\ Classified
    /\ Ge(climate.temp, 6, 10)
    /\ Ge(climate.humidity, 3, 10) /\ Le(climate.humidity, 6, 10)
    /\ Ge(climate.cont, 1, 10)
    /\ biome = "Savanna"

\* The decision table of section 4.5, each row with its full condition.
TableLabel(c) ==
    LET t == c.temp
        h == c.humidity
        k == c.cont
        land == Ge(k, 0, 10)
        cold == land /\ Lt(t, 2, 10)
        temperate == land /\ Ge(t, 2, 10) /\ Lt(t, 6, 10)
        hot == land /\ Ge(t, 6, 10)
    IN  CASE Lt(k, -5, 10) -> "DeepOcean"
          [] Ge(k, -5, 10) /\ Lt(k, -2, 10) -> "Ocean"
          [] Ge(k, -2, 10) /\ Lt(k, 0, 10) /\ Gt(h, 7, 10) -> "River"
          [] Ge(k, -2, 10) /\ Lt(k, 0, 10) /\ Le(h, 7, 10) -> "Beach"
          [] cold /\ Lt(h, 3, 10) /\ Gt(c.rare_chance, 9, 10) -> "IceSpikes"
          [] cold /\ Lt(h, 3, 10) /\ Le(c.rare_chance, 9, 10) -> "SnowyTaiga"
          [] cold /\ Ge(h, 3, 10) -> "Taiga"
          [] temperate /\ Gt(h, 7, 10) -> "Swamp"
          [] temperate /\ Le(h, 7, 10) /\ Gt(h, 4, 10) -> "Forest"
          [] temperate /\ Le(h, 4, 10) /\ Gt(k, 5, 10) -> "Mountain"
          [] temperate /\ Le(h, 4, 10) /\ Le(k, 5, 10) -> "Plains"
          [] hot /\ Gt(h, 6, 10) /\ Gt(c.jungle_chance, 7, 10) -> "Jungle"
          [] hot /\ Gt(h, 6, 10) /\ Le(c.jungle_chance, 7, 10) -> "Savanna"
          [] hot /\ Lt(h, 3, 10) /\ Gt(c.mesa_chance, 85, 100) -> "Mesa"
          [] hot /\ Lt(h, 3, 10) /\ Le(c.mesa_chance, 85, 100) -> "Desert"
          [] hot /\ Ge(h, 3, 10) /\ Le(h, 6, 10) /\ Lt(k, 1, 10)
                 /\ Gt(c.mushroom_chance, 95, 100) -> "Mushroom"
          [] hot /\ Ge(h, 3, 10) /\ Le(h, 6, 10)
                 /\ (Ge(k, 1, 10) \/ Le(c.mushroom_chance, 95, 100)) -> "Savanna"
          [] OTHER -> "none"

----------------------------------------------------------------------------
(* find_nearest_biome as a frame.                                          *)

MaxBiomeRadiusUnits == 7
MaxSamplesPerAxis == 5
NumOrigins == 4

BiomeRadii == {100 * k : k \in 0..MaxBiomeRadiusUnits}

\* Seeds and centres of the biome searches: places where common biomes tie
\* for nearest, and where a jungle, a mushroom field and ice spikes exist.
OriginTable ==
    << <<3, 0, 0>>, <<-37, -384, -256>>, <<39102, -1872, -528>>,
       <<126649, -100, -100>>, <<-7, -600, 250>> >>
BiomeOrigins == {OriginTable[k] : k \in 1..NumOrigins}

\* Target names: canonical names, aliases, other cases, and names outside
\* the table.
TargetNames ==
    {<<"f", "o", "r", "e", "s", "t">>,
     <<"P", "l", "a", "i", "n", "s">>,
     <<"S", "A", "V", "A", "N", "N", "A">>,
     <<"o", "c", "e", "a", "n">>,
     <<"e", "x", "t", "r", "e", "m", "e", "_", "h", "i", "l", "l", "s">>,
     <<"j", "u", "n", "g", "l", "e">>,
     <<"b", "a", "d", "l", "a", "n", "d", "s">>,
     <<"m", "e", "s", "a">>,
     <<"m", "u", "s", "h", "r", "o", "o", "m">>,
     <<"I", "c", "e", "_", "S", "p", "i", "k", "e", "s">>,
     <<"n", "o", "t", "_", "a", "_", "b", "i", "o", "m", "e">>,
     <<"u", "n", "k", "n", "o", "w", "n">>,
     <<"U", "n", "k", "n", "o", "w", "n">>,
     <<>>,
     <<"j", "u", "n", "g", "l", "e", " ">>,
     <<"f", "o", "r", "r", "e", "s", "t">>}

BiomeBegin ==
    /\ fn = "find_nearest_biome"
    /\ pc = "call"
    /\ best' = new_best
    /\ it_x' = 0
    /\ it_z' = 0
    /\ visited' = 0
    /\ classified' = 0
    /\ pc' = IF from_str(sel) = <<>> THEN "done" ELSE "loop"
    /\ UNCHANGED <<fn, seed, center_x, center_z, radius, sel, results, climate,
                   biome, prior>>

BiomeSample ==
    /\ fn = "find_nearest_biome"
    /\ pc = "loop"
    /\ LET target == from_str(sel)[1]
           step == step_for(target)
           n == samples_per_axis(radius, step)
           p == sample_point(center_x, center_z, radius, step, it_x, it_z)
       IN  /\ best' = biome_body(best, seed, center_x, center_z, radius, target,
                                 step, it_x, it_z)
           /\ visited' = visited + 1
           /\ classified' = IF sample_out_of_range(p, center_x, center_z, radius)
                            THEN classified ELSE classified + 1
           /\ Advance(0, n - 1, n - 1)
    /\ UNCHANGED <<fn, seed, center_x, center_z, radius, sel, results, climate,
                   biome, prior>>

\* Searches of at most MaxSamplesPerAxis samples per axis.
InitBiome ==
    /\ Frame("find_nearest_biome", BiomeOrigins, BiomeRadii, TargetNames)
    /\ climate = NoClimate
    /\ from_str(sel) # <<>> =>
           samples_per_axis(radius, step_for(from_str(sel)[1])) <= MaxSamplesPerAxis
NextBiome == BiomeBegin \/ BiomeSample
SpecBiome == InitBiome /\ [][NextBiome]_vars


----------------------------------------------------------------------------
(* Properties of find_nearest_biome.                                       *)

Searching == fn = "find_nearest_biome" /\ pc \in {"loop", "done"}
Returned == fn = "find_nearest_biome" /\ pc = "done"

\* The grid the search scans, in scan order (x index outer, z index inner),
\* for a target kind: index pairs and their points.
GridIndex(k) ==
    LET n == samples_per_axis(radius, step_for(k))
    IN  {<<i, j>> : i \in 0..(n - 1), j \in 0..(n - 1)}
GridPoint(k, ij) == <<center_x - radius + ij[1] * step_for(k),
                      center_z - radius + ij[2] * step_for(k)>>
Before(a, b) == a[1] < b[1] \/ (a[1] = b[1] /\ a[2] < b[2])
DistSq(p) == Sq(p[1] - center_x) + Sq(p[2] - center_z)

\* Grid samples labelled k within the radius.
Matches(k) ==
    {ij \in GridIndex(k) :
        /\ DistSq(GridPoint(k, ij)) <= Sq(radius)
        /\ get_biome_at(seed, GridPoint(k, ij)[1], GridPoint(k, ij)[2]) = k}

\* C7: a result (x, z, distance) of find_nearest_biome has the target's label
\* at (x, z), its distance is the Euclidean distance from the centre (the
\* root of the squared distance, not the square), and distance <= radius.
C7_ResultIsTarget ==
    (Searching /\ best # <<>>) =>
        LET d == best[3]
        IN  /\ get_biome_at(seed, best[1], best[2]) = from_str(sel)[1]
            /\ d[1] >= 0 /\ d[2] >= 0 /\ d[2] <= 2 * d[1]
            /\ Sq(d[1]) + d[2] = DistSq(<<best[1], best[2]>>)
            /\ (d[1] < radius \/ (d[1] = radius /\ d[2] = 0))

\* A search that returned a sample away from the centre.
C7_Witness == Returned /\ best # <<>> /\ best[3][1] >= 100

\* C8: find_nearest_biome returns the in-radius grid sample labelled with the
\* target that is nearest the centre, the first in scan order among equally
\* near ones; it returns none exactly when there is no such sample or the
\* name is not a known kind.
C8_NearestSample ==
    Returned =>
        IF from_str(sel) = <<>> THEN best = <<>>
        ELSE LET k == from_str(sel)[1]
                 M == Matches(k)
             IN  IF M = {} THEN best = <<>>
                 ELSE \E m \in M :
                        /\ best # <<>>
                        /\ <<best[1], best[2]>> = GridPoint(k, m)
                        /\ \A o \in M :
                              \/ DistSq(GridPoint(k, m)) < DistSq(GridPoint(k, o))
                              \/ /\ DistSq(GridPoint(k, m)) = DistSq(GridPoint(k, o))
                                 /\ (m = o \/ Before(m, o))

\* A returned result that had an equally near matching sample later in the
\* scan, and a farther one earlier in the scan.
C8_Witness ==
    /\ Returned
    /\ best # <<>>
    /\ LET k == from_str(sel)[1]
           M == Matches(k)
       IN  /\ \E m, o \in M :
                 /\ <<best[1], best[2]>> = GridPoint(k, m)
                 /\ Before(m, o)
                 /\ DistSq(GridPoint(k, m)) = DistSq(GridPoint(k, o))
           /\ \E m, o \in M :
                 /\ <<best[1], best[2]>> = GridPoint(k, m)
                 /\ Before(o, m)

\* A search for a known kind that returns none.
C8_WitnessNone == Returned /\ from_str(sel) # <<>> /\ best = <<>> /\ visited > 1


\* floor and ceiling of a / b for a >= 0, b > 0
FloorDiv(a, b) == a \div b
CeilDiv(a, b) == (a + b - 1) \div b
AtLeastOne(v) == IF v < 1 THEN 1 ELSE v

\* The step the rarity thresholds give a kind.
StepOfRarity(k) ==
    CASE rarity(k) > 80 -> 64
      [] rarity(k) <= 80 /\ rarity(k) > 50 -> 128
      [] OTHER -> 256

\* C9: the step is 64 for rarity > 0.8, 128 for rarity > 0.5 and 256
\* otherwise, and a search takes max(1, ceil(2*radius/step))^2 grid samples.
C9_SampleCountCeil ==
    (Returned /\ from_str(sel) # <<>>) =>
        visited = Sq(AtLeastOne(CeilDiv(2 * radius, StepOfRarity(from_str(sel)[1]))))

\* What the code takes instead: `radius * 2 / step` is an integer division, so
\* the count per axis is the floor of the quotient, clamped to at least 1.
SampleCountFloor ==
    (Returned /\ from_str(sel) # <<>>) =>
        visited = Sq(AtLeastOne(FloorDiv(2 * radius, StepOfRarity(from_str(sel)[1]))))

\* A finished search whose diameter is no multiple of the step, so that the
\* last column and row of the square, though partly within the radius, were
\* never sampled.
C9_Witness ==
    /\ Returned
    /\ from_str(sel) # <<>>
    /\ LET step == StepOfRarity(from_str(sel)[1])
           n == CeilDiv(2 * radius, step)
       IN  /\ (2 * radius) % step # 0
           /\ visited < Sq(n)
           /\ DistSq(<<center_x - radius + (n - 1) * step, center_z>>) <= Sq(radius)

\* The documented names and the kind of each.
DocumentedNames ==
    {<<<<"p", "l", "a", "i", "n", "s">>, "Plains">>,
     <<<<"f", "o", "r", "e", "s", "t">>, "Forest">>,
     <<<<"j", "u", "n", "g", "l", "e">>, "Jungle">>,
     <<<<"d", "e", "s", "e", "r", "t">>, "Desert">>,
     <<<<"m", "e", "s", "a">>, "Mesa">>,
     <<<<"b", "a", "d", "l", "a", "n", "d", "s">>, "Mesa">>,
     <<<<"m", "u", "s", "h", "r", "o", "o", "m">>, "Mushroom">>,
     <<<<"m", "u", "s", "h", "r", "o", "o", "m", "_", "f", "i", "e", "l", "d", "s">>, "Mushroom">>,
     <<<<"i", "c", "e", "_", "s", "p", "i", "k", "e", "s">>, "IceSpikes">>,
     <<<<"i", "c", "e", "s", "p", "i", "k", "e", "s">>, "IceSpikes">>,
     <<<<"s", "w", "a", "m", "p">>, "Swamp">>,
     <<<<"s", "a", "v", "a", "n", "n", "a">>, "Savanna">>,
     <<<<"t", "a", "i", "g", "a">>, "Taiga">>,
     <<<<"s", "n", "o", "w", "y", "_", "t", "a", "i", "g", "a">>, "SnowyTaiga">>,
     <<<<"o", "c", "e", "a", "n">>, "Ocean">>,
     <<<<"d", "e", "e", "p", "_", "o", "c", "e", "a", "n">>, "DeepOcean">>,
     <<<<"b", "e", "a", "c", "h">>, "Beach">>,
     <<<<"r", "i", "v", "e", "r">>, "River">>,
     <<<<"m", "o", "u", "n", "t", "a", "i", "n">>, "Mountain">>,
     <<<<"e", "x", "t", "r", "e", "m", "e", "_", "h", "i", "l", "l", "s">>, "Mountain">>}

UpperCase == <<"A", "B", "C", "D", "E", "F", "G", "H", "I", "J", "K", "L", "M",
               "N", "O", "P", "Q", "R", "S", "T", "U", "V", "W", "X", "Y", "Z">>
LowerCase == <<"a", "b", "c", "d", "e", "f", "g", "h", "i", "j", "k", "l", "m",
               "n", "o", "p", "q", "r", "s", "t", "u", "v", "w", "x", "y", "z">>
SameLetter(a, b) ==
    a = b \/ \E i \in 1..26 : {a, b} = {UpperCase[i], LowerCase[i]}
SameName(a, b) ==
    Len(a) = Len(b) /\ \A i \in 1..Len(a) : SameLetter(a[i], b[i])

\* C10: name lookup ignores case and knows the aliases (mesa = badlands,
\* mountain = extreme_hills); every other name, "not_a_biome" and "unknown"
\* included, resolves to none, and find_nearest_biome then returns none
\* without taking or classifying a sample.
C10_NameLookup ==
    /\ from_str(<<"m", "e", "s", "a">>) # <<>>
    /\ from_str(<<"m", "e", "s", "a">>) = from_str(<<"b", "a", "d", "l", "a", "n", "d", "s">>)
    /\ from_str(<<"m", "o", "u", "n", "t", "a", "i", "n">>) # <<>>
    /\ from_str(<<"m", "o", "u", "n", "t", "a", "i", "n">>)
           = from_str(<<"e", "x", "t", "r", "e", "m", "e", "_", "h", "i", "l", "l", "s">>)
    /\ from_str(<<"n", "o", "t", "_", "a", "_", "b", "i", "o", "m", "e">>) = <<>>
    /\ from_str(<<"u", "n", "k", "n", "o", "w", "n">>) = <<>>
    /\ fn = "find_nearest_biome" =>
           /\ \A d \in DocumentedNames : SameName(sel, d[1]) => from_str(sel) = <<d[2]>>
           /\ (\A d \in DocumentedNames : ~SameName(sel, d[1])) => from_str(sel) = <<>>
           /\ (pc = "done" /\ from_str(sel) = <<>>) =>
                  best = <<>> /\ visited = 0 /\ classified = 0

\* A search under a name outside the table, written with a capital, has
\* returned.
C10_Witness ==
    /\ Returned
    /\ radius > 0
    /\ from_str(sel) = <<>>
    /\ sel # to_lowercase(sel)


----------------------------------------------------------------------------
(* Calls in sequence: the three searches invoked one after another in one  *)
(* process.  `prior` keeps the arguments and the return value of the first *)
(* call, and counts the calls completed since.                             *)

MaxCalls == 3

Call(f, sd, cx, cz, r, t) ==
    [fn |-> f, seed |-> sd, center_x |-> cx, center_z |-> cz, radius |-> r, sel |-> t]

CallTable ==
    {Call("find_structures", 12345, 0, 0, 250, "BuriedTreasure"),
     Call("find_structures", -7, -600, 250, 500, "Village"),
     Call("find_nether_structures", 12345, 0, 0, 250, "-"),
     Call("find_nether_structures", -7, 130, -90, 500, "-"),
     Call("find_nearest_biome", 3, 0, 0, 400, <<"P", "l", "a", "i", "n", "s">>),
     Call("find_nearest_biome", -37, -384, -256, 200, <<"j", "u", "n", "g", "l", "e">>)}

\* The value the finished frame returns.
Ret == IF fn = "find_nearest_biome" THEN best ELSE results

SameCall(c) ==
    /\ fn = c.fn
    /\ seed = c.seed
    /\ center_x = c.center_x
    /\ center_z = c.center_z
    /\ radius = c.radius
    /\ sel = c.sel

InitCalls ==
    /\ \E c \in CallTable :
           Frame(c.fn, {<<c.seed, c.center_x, c.center_z>>}, {c.radius}, {c.sel})
    /\ climate = NoClimate

\* The frame has returned; the caller makes its next call.  Locals of the
\* finished frame are left as they are: nothing of them is an input of the
\* next call.
NextCall ==
    /\ pc = "done"
    /\ fn \in {"find_structures", "find_nether_structures", "find_nearest_biome"}
    /\ (IF prior = <<>> THEN 1 ELSE prior[1].n + 1) < MaxCalls
    /\ prior' = IF prior = <<>>
                THEN <<[call |-> Call(fn, seed, center_x, center_z, radius, sel),
                        ret |-> Ret, n |-> 1, other |-> 0]>>
                ELSE <<[prior[1] EXCEPT !.n = @ + 1,
                                        !.other = IF SameCall(prior[1].call)
                                                  THEN @ ELSE @ + 1]>>
    /\ \E c \in CallTable :
           /\ fn' = c.fn
           /\ seed' = c.seed
           /\ center_x' = c.center_x
           /\ center_z' = c.center_z
           /\ radius' = c.radius
           /\ sel' = c.sel
    /\ pc' = "call"
    /\ UNCHANGED <<it_x, it_z, results, best, visited, classified, climate, biome>>

NextCalls ==
    \/ StructuresBegin \/ StructuresRegion
    \/ NetherBegin \/ NetherQuadrant
    \/ BiomeBegin \/ BiomeSample
    \/ NextCall
SpecCalls == InitCalls /\ [][NextCalls]_vars

\* C4: a call of find_structures, find_nether_structures or
\* find_nearest_biome with the arguments of an earlier call returns what the
\* earlier call returned, entries in the same order, whatever calls were made
\* in between.
C4_Deterministic ==
    (pc = "done" /\ prior # <<>> /\ SameCall(prior[1].call)) => Ret = prior[1].ret

\* The first call has been repeated after a different call, and returned a
\* non-empty result.
C4_Witness ==
    /\ pc = "done"
    /\ prior # <<>>
    /\ SameCall(prior[1].call)
    /\ prior[1].other >= 1
    /\ Ret # <<>>


====
